---- MODULE Spec2Model ----
(***************************************************************************)
(* Weekly dinner suggestions: load recipe URLs, fetch page titles, ask an  *)
(* LLM for suggestions, email the result (weekly_meal_plan_llm_v2.py).     *)
(*                                                                         *)
(* Python strings are sequences of one-character strings, so that strip(), *)
(* lower(), startswith(), "k in hay" and urlparse() are computed, not      *)
(* assumed.                                                                *)
(***************************************************************************)
EXTENDS Integers, Sequences, FiniteSets, TLC

VARIABLES pc, env, recipes_file, urls_filtered, urls, meals_per_week,
          max_to_fetch, metas, net, resp, body, mail, exit_status, error,
          calls, probe, probe_ret

vars == <<pc, env, recipes_file, urls_filtered, urls, meals_per_week,
          max_to_fetch, metas, net, resp, body, mail, exit_status, error,
          calls, probe, probe_ret>>

----------------------------------------------------------------------------
(* Bounds of the model *)

\* longest recipes file, in lines, of the loader specification
MaxLines == 3
\* longest recipes file, in lines, of a whole run of main()
MaxRunLines == 2
\* longest URL list handed to build_link_metas on its own
MaxUrls == 3
\* largest cap (max_to_fetch) handed to build_link_metas on its own
MaxCap == 3
\* most output items of an LLM response payload
MaxItems == 2
\* most content parts of one output item
MaxParts == 2

----------------------------------------------------------------------------
(* Python str operations *)

\* an environment variable that is not set (os.getenv returns the default)
Unset == <<"<unset>">>
\* Python None where a str is expected (a missing tag, attribute or JSON key)
None == <<"<None>">>

Uppers == <<"A","B","C","D","E","F","G","H","I","J","K","L","M","N","O","P","Q","R","S","T","U","V","W","X","Y","Z">>
Lowers == <<"a","b","c","d","e","f","g","h","i","j","k","l","m","n","o","p","q","r","s","t","u","v","w","x","y","z">>
Digits == {"0", "1", "2", "3", "4", "5", "6", "7", "8", "9"}
Letters == {Uppers[i] : i \in 1..26} \cup {Lowers[i] : i \in 1..26}
Whitespace == {" ", "\t", "\n", "\r"}

Min(S) == CHOOSE x \in S : \A y \in S : x <= y
Max(S) == CHOOSE x \in S : \A y \in S : y <= x

\* the lower-case letter of each upper-case letter
ToLower == [c \in {Uppers[i] : i \in 1..26} |->
              Lowers[CHOOSE i \in 1..26 : Uppers[i] = c]]

\* str.lower() of one character
lowerChar(c) == IF c \in DOMAIN ToLower THEN ToLower[c] ELSE c

\* str.lower()
lower(s) == [i \in 1..Len(s) |-> lowerChar(s[i])]

\* str.strip(): drop leading and trailing whitespace
strip(s) ==
  LET I == {i \in 1..Len(s) : s[i] \notin Whitespace}
  IN  IF I = {} THEN << >> ELSE SubSeq(s, Min(I), Max(I))

\* str.startswith(prefix)
startswith(s, prefix) ==
  Len(s) >= Len(prefix) /\ SubSeq(s, 1, Len(prefix)) = prefix

\* "k in hay" for str
contains(hay, k) ==
  \E i \in 1..(Len(hay) - Len(k) + 1) : SubSeq(hay, i, i + Len(k) - 1) = k

\* str.find over a set of characters, from position `from`; 0 when absent
find(s, chars, from) ==
  LET I == {i \in from..Len(s) : s[i] \in chars}
  IN  IF I = {} THEN 0 ELSE Min(I)

\* str.rfind of one character; 0 when absent
rfind(s, c) ==
  LET I == {i \in 1..Len(s) : s[i] = c}
  IN  IF I = {} THEN 0 ELSE Max(I)

\* os.getenv(name, default)
getenv(e, name, default) == IF e[name] = Unset THEN default ELSE e[name]

RECURSIVE join(_, _)
\* sep.join(parts)
join(sep, parts) ==
  IF parts = << >> THEN << >>
  ELSE IF Len(parts) = 1 THEN parts[1]
  ELSE parts[1] \o sep \o join(sep, Tail(parts))

----------------------------------------------------------------------------
(* URL list + filtering *)

DEFAULT_URLS == << >>

DESSERT_KEYWORDS == {
  <<"c","o","o","k","i","e">>, <<"c","o","o","k","i","e","s">>, <<"c","a","k","e">>, <<"b","r","o","w","n","i","e">>, <<"b","r","o","w","n","i","e","s">>, <<"m","u","f","f","i","n">>,
  <<"m","u","f","f","i","n","s">>, <<"b","a","n","a","n","a","-","b","r","e","a","d">>, <<"b","a","n","a","n","a","b","r","e","a","d">>, <<"b","a","n","a","n","a","_","b","r","e","a","d">>, <<"l","o","a","f">>,
  <<"c","u","p","c","a","k","e">>, <<"c","u","p","c","a","k","e","s">>, <<"s","l","i","c","e">>, <<"b","i","s","c","u","i","t">>, <<"b","i","s","c","u","i","t","s">>, <<"p","u","d","d","i","n","g">>,
  <<"p","i","e">>, <<"t","a","r","t">>, <<"d","o","n","u","t">>, <<"d","o","u","g","h","n","u","t">>, <<"f","u","d","g","e">>, <<"i","c","e","-","c","r","e","a","m">>,
  <<"i","c","e","c","r","e","a","m">>, <<"g","e","l","a","t","o">>, <<"s","w","e","e","t">>, <<"d","e","s","s","e","r","t">>, <<"c","h","o","c","o","l","a","t","e">>, <<"n","u","t","e","l","l","a">>,
  <<"c","a","r","a","m","e","l">>, <<"s","m","o","o","t","h","i","e">> }

SchemeChars == Letters \cup Digits \cup {"+", "-", "."}

uses_params == { << >>, <<"f","t","p">>, <<"h","d","l">>, <<"p","r","o","s","p","e","r","o">>, <<"h","t","t","p">>, <<"i","m","a","p">>,
  <<"h","t","t","p","s">>, <<"s","h","t","t","p">>, <<"r","t","s","p">>, <<"r","t","s","p","s">>, <<"r","t","s","p","u">>, <<"s","i","p">>, <<"s","i","p","s">>, <<"m","m","s">>,
  <<"s","f","t","p">>, <<"t","e","l">> }

\* urllib.parse.urlsplit: scheme up to the first ":", netloc after "//" up
\* to the first of "/?#", fragment after the first "#", query after the
\* first "?" of what is left, the rest is the path
urlsplit(url) ==
  LET i == find(url, {":"}, 1)
      hasScheme == /\ i > 1
                   /\ url[1] \in Letters
                   /\ \A j \in 1..(i - 1) : url[j] \in SchemeChars
      scheme == IF hasScheme THEN lower(SubSeq(url, 1, i - 1)) ELSE << >>
      u1 == IF hasScheme THEN SubSeq(url, i + 1, Len(url)) ELSE url
      hasNet == Len(u1) >= 2 /\ SubSeq(u1, 1, 2) = <<"/","/">>
      d == find(u1, {"/", "?", "#"}, 3)
      delim == IF d = 0 THEN Len(u1) + 1 ELSE d
      netloc == IF hasNet THEN SubSeq(u1, 3, delim - 1) ELSE << >>
      u2 == IF hasNet THEN SubSeq(u1, delim, Len(u1)) ELSE u1
      h == find(u2, {"#"}, 1)
      fragment == IF h = 0 THEN << >> ELSE SubSeq(u2, h + 1, Len(u2))
      u3 == IF h = 0 THEN u2 ELSE SubSeq(u2, 1, h - 1)
      q == find(u3, {"?"}, 1)
      query == IF q = 0 THEN << >> ELSE SubSeq(u3, q + 1, Len(u3))
      u4 == IF q = 0 THEN u3 ELSE SubSeq(u3, 1, q - 1)
  IN  [scheme |-> scheme, netloc |-> netloc, path |-> u4,
       query |-> query, fragment |-> fragment]

\* urllib.parse._splitparams: ";params" of the last path segment
splitparams(path) ==
  LET slash == rfind(path, "/")
      i == find(path, {";"}, IF slash = 0 THEN 1 ELSE slash)
  IN  IF i = 0 THEN [path |-> path, params |-> << >>]
      ELSE [path |-> SubSeq(path, 1, i - 1),
            params |-> SubSeq(path, i + 1, Len(path))]

\* urllib.parse.urlparse
urlparse(url) ==
  LET s == urlsplit(url)
      sp == IF s.scheme \in uses_params /\ find(s.path, {";"}, 1) # 0
            THEN splitparams(s.path)
            ELSE [path |-> s.path, params |-> << >>]
  IN  [scheme |-> s.scheme, netloc |-> s.netloc, path |-> sp.path,
       params |-> sp.params, query |-> s.query, fragment |-> s.fragment]

\* the haystack of is_probably_sweet_url without the separating space
hay_nospace(p) == lower(p.path \o p.query)

\* hay = (p.path + " " + p.query).lower()
hay(p) == lower(p.path \o <<" ">> \o p.query)

is_probably_sweet_url(url) ==
  \E k \in DESSERT_KEYWORDS : contains(hay(urlparse(url)), k)

\* the loop over the lines of the recipes file: strip, skip blank lines and
\* comments, append the rest; acc[i] is `urls` after i lines
read_lines(lines) ==
  LET acc[i \in 0..Len(lines)] ==
        IF i = 0 THEN << >>
        ELSE LET line == strip(lines[i])
             IN  IF line = << >> \/ startswith(line, <<"#">>)
                 THEN acc[i - 1]
                 ELSE Append(acc[i - 1], line)
  IN  acc[Len(lines)]

\* every non-empty entry kept, whatever it starts with
keep_any(u) == u # << >>

\* the entries kept by the list comprehension: non-empty and, stripped,
\* starting with "http"
keep_http(u) == u # << >> /\ startswith(strip(u), <<"h","t","t","p">>)

\* urls = [u.strip() for u in urls if u and u.strip().startswith("http")]
http_only(us) ==
  LET kept == SelectSeq(us, keep_http)
  IN  [i \in 1..Len(kept) |-> strip(kept[i])]

\* include_sweets read as "set to anything non-empty"
include_sweets_any(e) == strip(getenv(e, "INCLUDE_SWEETS", << >>)) # << >>

\* include_sweets = os.getenv("INCLUDE_SWEETS", "").strip() == "1"
include_sweets(e) == strip(getenv(e, "INCLUDE_SWEETS", << >>)) = <<"1">>

not_sweet(u) == ~is_probably_sweet_url(u)

\* if not include_sweets: urls = [u for u in urls if not is_probably_sweet_url(u)]
drop_sweets(us, e) ==
  IF ~include_sweets(e) THEN SelectSeq(us, not_sweet) ELSE us

\* a de-duplication that keeps the last occurrence of each URL
dedupe_last(us) ==
  LET n == Len(us)
      st[i \in 0..n] ==
        IF i = 0 THEN [seen |-> {}, out |-> << >>]
        ELSE LET u == us[n + 1 - i]
             IN  IF u \notin st[i - 1].seen
                 THEN [seen |-> st[i - 1].seen \cup {u},
                       out |-> <<u>> \o st[i - 1].out]
                 ELSE st[i - 1]
  IN  st[n].out

\* de-dupe preserving order: the loop over urls with the set `seen` and the
\* list `out`; st[i] is their value after i URLs
dedupe(us) ==
  LET st[i \in 0..Len(us)] ==
        IF i = 0 THEN [seen |-> {}, out |-> << >>]
        ELSE LET u == us[i]
             IN  IF u \notin st[i - 1].seen
                 THEN [seen |-> st[i - 1].seen \cup {u},
                       out |-> Append(st[i - 1].out, u)]
                 ELSE st[i - 1]
  IN  st[Len(us)].out

\* the value of `urls` when the de-duplication loop starts
load_filtered(file, e) ==
  LET raw == IF file.exists THEN read_lines(file.lines)
             ELSE DEFAULT_URLS
  IN  drop_sweets(http_only(raw), e)


----------------------------------------------------------------------------
(* Fetch page titles *)

\* default of the parameter max_to_fetch of build_link_metas
DEFAULT_MAX_TO_FETCH == 60

\* what requests.get and the HTML of the page can come to: requests raises
\* (kind "exc"), or a response with a status, whether the HTML parses, the
\* content of <meta property="og:title"> and the string of <title>
FetchResults == {
  [kind |-> "exc",  status |-> 0,   parses |-> TRUE,  og |-> None, title |-> None],
  [kind |-> "http", status |-> 404, parses |-> TRUE,  og |-> <<" ","N","o","t"," ","f","o","u","n","d"," ">>, title |-> <<"4","0","4">>],
  [kind |-> "http", status |-> 200, parses |-> FALSE, og |-> <<"O","g">>, title |-> <<"T">>],
  [kind |-> "http", status |-> 200, parses |-> TRUE,  og |-> None, title |-> None],
  [kind |-> "http", status |-> 200, parses |-> TRUE,  og |-> <<" ","O","g"," ">>, title |-> <<"T">>],
  [kind |-> "http", status |-> 200, parses |-> TRUE,  og |-> << >>, title |-> <<" ","T","\n">>] }

\* fetch_title that lets a failed GET leave its error text as the title
fetch_title_leaky(r) ==
  IF r.og # None /\ r.og # << >> THEN strip(r.og)
  ELSE IF r.title # None /\ r.title # << >> THEN strip(r.title)
  ELSE << >>

\* fetch_title(url), given what the GET came to: any exception, raised by
\* requests.get, by raise_for_status (status 400..599) or by the parser, is
\* swallowed and leaves ""
fetch_title(r) ==
  IF r.kind = "exc" \/ r.status >= 400 \/ ~r.parses THEN << >>
  ELSE IF r.og # None /\ r.og # << >> THEN strip(r.og)
  ELSE IF r.title # None /\ r.title # << >> THEN strip(r.title)
  ELSE << >>

\* number of URLs of urls[:max_to_fetch]
fetch_count(us, cap) == IF cap < Len(us) THEN cap ELSE Len(us)

\* one iteration of  for u in urls[:max_to_fetch]: GET the page, append
\* LinkMeta(url, title)
FetchTitleStep ==
  /\ pc = "build_link_metas"
  /\ Len(metas) < fetch_count(urls, max_to_fetch)
  /\ \E r \in FetchResults :
       LET u == urls[Len(metas) + 1]
       IN  /\ net' = Append(net, [kind |-> "GET", url |-> u, reply |-> r])
           /\ metas' = Append(metas, [url |-> u, title |-> fetch_title(r)])
  /\ UNCHANGED <<pc, env, recipes_file, urls_filtered, urls, meals_per_week,
                 max_to_fetch, resp, body, mail, exit_status, error, calls,
                 probe, probe_ret>>

\* the entries appended by  for u in urls[max_to_fetch:]
rest_metas(us, n) ==
  [i \in 1..(Len(us) - n) |-> [url |-> us[n + i], title |-> << >>]]

\* for u in urls[max_to_fetch:]: append LinkMeta(url, "") without a GET,
\* then return metas
BuildLinkMetasRest ==
  /\ pc = "build_link_metas"
  /\ Len(metas) = fetch_count(urls, max_to_fetch)
  /\ metas' = metas \o rest_metas(urls, Len(metas))
  /\ pc' = "call_openai_suggestions"
  /\ UNCHANGED <<env, recipes_file, urls_filtered, urls, meals_per_week,
                 max_to_fetch, net, resp, body, mail, exit_status, error,
                 calls, probe, probe_ret>>

----------------------------------------------------------------------------
(* API call *)

OPENAI_URL == <<"h","t","t","p","s",":","/","/","a","p","i",".","o","p","e","n","a","i",".","c","o","m","/","v","1","/","r","e","s","p","o","n","s","e","s">>

NoResp == [kind |-> "none", status |-> 0, json_ok |-> TRUE,
           data |-> [output |-> << >>, output_text |-> None]]

\* the content types whose text is collected
text_types == {"output_text", "text"}

RECURSIVE content_chunks(_, _)
\* for c in item.get("content", []): collect c.get("text", "") of the parts
\* whose type is a text type
content_chunks(parts, chunks) ==
  IF parts = << >> THEN chunks
  ELSE LET c == Head(parts)
       IN  IF c.type \in text_types
           THEN content_chunks(Tail(parts),
                  Append(chunks, IF c.text = None THEN << >> ELSE c.text))
           ELSE content_chunks(Tail(parts), chunks)

RECURSIVE output_chunks(_, _)
\* for item in data.get("output", []): ...
output_chunks(items, chunks) ==
  IF items = << >> THEN chunks
  ELSE output_chunks(Tail(items), content_chunks(Head(items).content, chunks))

\* (data.get("output_text") or "").strip()
output_text_of(data) ==
  IF data.output_text = None THEN << >> ELSE strip(data.output_text)

\* the text taken from the top-level field whenever it has one
extract_text_flat_first(data) ==
  IF output_text_of(data) # << >> THEN output_text_of(data)
  ELSE strip(join(<<"\n">>, output_chunks(data.output, << >>)))

\* the text call_openai_suggestions takes from the decoded response
extract_text(data) ==
  LET text == strip(join(<<"\n">>, output_chunks(data.output, << >>)))
  IN  IF text # << >> THEN text ELSE output_text_of(data)

\* the outcomes of requests.post during a run: the request raises, an error
\* status, a body that is not JSON, payloads with and without text
LLMResults == {
  [kind |-> "exc",  status |-> 0,   json_ok |-> TRUE,
   data |-> [output |-> << >>, output_text |-> None]],
  [kind |-> "http", status |-> 500, json_ok |-> TRUE,
   data |-> [output |-> << >>, output_text |-> <<"e","r","r","o","r">>]],
  [kind |-> "http", status |-> 200, json_ok |-> FALSE,
   data |-> [output |-> << >>, output_text |-> None]],
  [kind |-> "http", status |-> 200, json_ok |-> TRUE,
   data |-> [output |-> << [content |-> << [type |-> "output_text", text |-> <<"H","i","\n","1","."," ","A"," ">>] >>] >>,
             output_text |-> None]],
  [kind |-> "http", status |-> 200, json_ok |-> TRUE,
   data |-> [output |-> << [content |-> << [type |-> "reasoning", text |-> <<"r">>] >>] >>,
             output_text |-> <<" ","H","i"," ">>]],
  [kind |-> "http", status |-> 200, json_ok |-> TRUE,
   data |-> [output |-> << [content |-> << [type |-> "text", text |-> <<" ">>] >>] >>,
             output_text |-> None]] }

\* call_openai_suggestions up to requests.post: the API key is checked, the
\* prompt is built and the request is sent
CallOpenAI ==
  /\ pc = "call_openai_suggestions"
  /\ calls' = Append(calls, "call_openai_suggestions")
  /\ IF strip(getenv(env, "OPENAI_API_KEY", << >>)) = << >>
     THEN /\ error' = "RuntimeError: OPENAI_API_KEY must be set"
          /\ exit_status' = 1
          /\ pc' = "done"
          /\ UNCHANGED <<net, resp>>
     ELSE /\ resp' \in LLMResults
          /\ net' = Append(net, [kind |-> "POST", url |-> OPENAI_URL,
                                 reply |-> resp'])
          /\ pc' = "llm_response"
          /\ UNCHANGED <<error, exit_status>>
  /\ UNCHANGED <<env, recipes_file, urls_filtered, urls, meals_per_week,
                 max_to_fetch, metas, body, mail, probe, probe_ret>>

\* the response handling without the check for an empty text
LLMResponseBlank ==
  /\ pc = "llm_response"
  /\ IF resp.kind = "exc"
     THEN /\ error' = "RequestException"
          /\ exit_status' = 1 /\ pc' = "done" /\ UNCHANGED body
     ELSE IF resp.status >= 400
     THEN /\ error' = "RuntimeError: OpenAI API error"
          /\ exit_status' = 1 /\ pc' = "done" /\ UNCHANGED body
     ELSE IF ~resp.json_ok
     THEN /\ error' = "JSONDecodeError"
          /\ exit_status' = 1 /\ pc' = "done" /\ UNCHANGED body
     ELSE /\ body' = extract_text(resp.data)
          /\ pc' = "send_email"
          /\ UNCHANGED <<error, exit_status>>
  /\ UNCHANGED <<env, recipes_file, urls_filtered, urls, meals_per_week,
                 max_to_fetch, metas, net, resp, mail, calls, probe, probe_ret>>

\* call_openai_suggestions from the return of requests.post: status check,
\* JSON decoding, text extraction, and the return of the text into `body`
LLMResponse ==
  /\ pc = "llm_response"
  /\ IF resp.kind = "exc"
     THEN /\ error' = "RequestException"
          /\ exit_status' = 1 /\ pc' = "done" /\ UNCHANGED body
     ELSE IF resp.status >= 400
     THEN /\ error' = "RuntimeError: OpenAI API error"
          /\ exit_status' = 1 /\ pc' = "done" /\ UNCHANGED body
     ELSE IF ~resp.json_ok
     THEN /\ error' = "JSONDecodeError"
          /\ exit_status' = 1 /\ pc' = "done" /\ UNCHANGED body
     ELSE IF extract_text(resp.data) = << >>
     THEN /\ error' = "RuntimeError: OpenAI API returned no text output"
          /\ exit_status' = 1 /\ pc' = "done" /\ UNCHANGED body
     ELSE /\ body' = extract_text(resp.data)
          /\ pc' = "send_email"
          /\ UNCHANGED <<error, exit_status>>
  /\ UNCHANGED <<env, recipes_file, urls_filtered, urls, meals_per_week,
                 max_to_fetch, metas, net, resp, mail, calls, probe, probe_ret>>

----------------------------------------------------------------------------
(* the email part *)

DigitSeq == <<"0","1","2","3","4","5","6","7","8","9">>

\* whether int(s) succeeds (decimal digits)
is_int(s) == s # << >> /\ \A i \in 1..Len(s) : s[i] \in Digits

RECURSIVE to_int(_)
\* int(s)
to_int(s) ==
  IF s = << >> THEN 0
  ELSE 10 * to_int(SubSeq(s, 1, Len(s) - 1))
       + (CHOOSE d \in 0..9 : DigitSeq[d + 1] = s[Len(s)])

\* what the SMTP session can come to
SmtpResults == {"sent", "connect failed", "login refused"}

\* send_email(body): the three settings are checked, the port is parsed,
\* then the session is opened and the message submitted
SendEmail ==
  /\ pc = "send_email"
  /\ calls' = Append(calls, "send_email")
  /\ pc' = "done"
  /\ LET email_user == strip(getenv(env, "EMAIL_USER", << >>))
         email_pass == strip(getenv(env, "EMAIL_PASS", << >>))
         email_to == strip(getenv(env, "EMAIL_TO", << >>))
         smtp_host == strip(getenv(env, "SMTP_HOST", <<"s","m","t","p",".","g","m","a","i","l",".","c","o","m">>))
         smtp_port == strip(getenv(env, "SMTP_PORT", <<"5","8","7">>))
     IN  IF email_user = << >> \/ email_pass = << >> \/ email_to = << >>
         THEN /\ error' = "RuntimeError: EMAIL_USER, EMAIL_PASS and EMAIL_TO must be set"
              /\ exit_status' = 1
              /\ UNCHANGED <<net, mail>>
         ELSE IF ~is_int(smtp_port)
         THEN /\ error' = "ValueError"
              /\ exit_status' = 1
              /\ UNCHANGED <<net, mail>>
         ELSE \E r \in SmtpResults :
                /\ net' = Append(net, [kind |-> "SMTP", url |-> smtp_host,
                                       reply |-> r])
                /\ IF r = "sent"
                   THEN /\ mail' = Append(mail, [from |-> email_user,
                                                 to |-> email_to,
                                                 content |-> body])
                        /\ exit_status' = 0
                        /\ UNCHANGED error
                   ELSE /\ error' = "SMTPException"
                        /\ exit_status' = 1
                        /\ UNCHANGED mail
  /\ UNCHANGED <<env, recipes_file, urls_filtered, urls, meals_per_week,
                 max_to_fetch, metas, resp, body, probe, probe_ret>>

----------------------------------------------------------------------------
(* main *)

\* urls = load_recipe_urls(): the file is read and filtered, then the list
\* is de-duplicated
LoadRecipeUrls ==
  /\ pc = "main"
  /\ calls' = Append(calls, "load_recipe_urls")
  /\ urls_filtered' = load_filtered(recipes_file, env)
  /\ urls' = dedupe(urls_filtered')
  /\ pc' = "urls_loaded"
  /\ UNCHANGED <<env, recipes_file, meals_per_week, max_to_fetch, metas, net,
                 resp, body, mail, exit_status, error, probe, probe_ret>>

\* the empty list goes on to the title fetcher like any other
MainNoUrlsGoOn ==
  /\ pc = "urls_loaded"
  /\ urls = << >>
  /\ calls' = Append(calls, "build_link_metas")
  /\ max_to_fetch' = DEFAULT_MAX_TO_FETCH
  /\ pc' = "build_link_metas"
  /\ UNCHANGED <<env, recipes_file, urls_filtered, urls, meals_per_week,
                 metas, net, resp, body, mail, exit_status, error, probe,
                 probe_ret>>

\* the empty list ends the run with status 0
MainNoUrlsZero ==
  /\ pc = "urls_loaded"
  /\ urls = << >>
  /\ exit_status' = 0
  /\ pc' = "done"
  /\ UNCHANGED <<env, recipes_file, urls_filtered, urls, meals_per_week,
                 max_to_fetch, metas, net, resp, body, mail, error, calls,
                 probe, probe_ret>>

\* if not urls: print the guidance message and return 2
MainNoUrls ==
  /\ pc = "urls_loaded"
  /\ urls = << >>
  /\ exit_status' = 2
  /\ pc' = "done"
  /\ UNCHANGED <<env, recipes_file, urls_filtered, urls, meals_per_week,
                 max_to_fetch, metas, net, resp, body, mail, error, calls,
                 probe, probe_ret>>

\* meals_per_week = int(...); metas = build_link_metas(urls)  (the call)
MainBuildLinkMetas ==
  /\ pc = "urls_loaded"
  /\ urls # << >>
  /\ LET s == strip(getenv(env, "MEALS_PER_WEEK", <<"7">>))
     IN  IF is_int(s)
         THEN /\ meals_per_week' = to_int(s)
              /\ max_to_fetch' = DEFAULT_MAX_TO_FETCH
              /\ calls' = Append(calls, "build_link_metas")
              /\ pc' = "build_link_metas"
              /\ UNCHANGED <<error, exit_status>>
         ELSE /\ error' = "ValueError"
              /\ exit_status' = 1
              /\ pc' = "done"
              /\ UNCHANGED <<meals_per_week, max_to_fetch, calls>>
  /\ UNCHANGED <<env, recipes_file, urls_filtered, urls, metas, net, resp,
                 body, mail, probe, probe_ret>>

----------------------------------------------------------------------------
(* is_probably_sweet_url on its own *)

NoProbe == [scheme |-> << >>, host |-> << >>, path |-> << >>,
            params |-> None, query |-> None, fragment |-> None]

\* the URL written from its components
compose(p) ==
  p.scheme \o <<":","/","/">> \o p.host \o p.path
  \o (IF p.params = None THEN << >> ELSE <<";">> \o p.params)
  \o (IF p.query = None THEN << >> ELSE <<"?">> \o p.query)
  \o (IF p.fragment = None THEN << >> ELSE <<"#">> \o p.fragment)

\* a call of is_probably_sweet_url(url)
SweetProbe ==
  /\ pc = "is_probably_sweet_url"
  /\ probe_ret' = is_probably_sweet_url(compose(probe))
  /\ pc' = "returned"
  /\ UNCHANGED <<env, recipes_file, urls_filtered, urls, meals_per_week,
                 max_to_fetch, metas, net, resp, body, mail, exit_status,
                 error, calls, probe>>

----------------------------------------------------------------------------
(* Inputs *)

SeqsUpTo(S, n) == UNION {[1..k -> S] : k \in 0..n}

NoEnv == [INCLUDE_SWEETS |-> Unset, OPENAI_API_KEY |-> Unset,
          EMAIL_USER |-> Unset, EMAIL_PASS |-> Unset, EMAIL_TO |-> Unset,
          MEALS_PER_WEEK |-> Unset, SMTP_HOST |-> Unset, SMTP_PORT |-> Unset]

NoFile == [exists |-> FALSE, lines |-> << >>]

\* lines a recipes file is made of, as read (with the line end)
LoadLines == {
  <<"h","t","t","p",":","/","/","a",".","e","x","a","m","p","l","e","/","c","h","i","c","k","e","n","\n">>,
  <<" "," ","h","t","t","p",":","/","/","a",".","e","x","a","m","p","l","e","/","c","h","i","c","k","e","n","\t","\n">>,
  <<"h","t","t","p",":","/","/","a",".","e","x","a","m","p","l","e","/","C","h","i","c","k","e","n","\n">>,
  <<"h","t","t","p",":","/","/","b",".","e","x","a","m","p","l","e","/","c","a","k","e","\n">>,
  <<"h","t","t","p",":","/","/","s","w","e","e","t",".","e","x","a","m","p","l","e","/","s","t","e","w","\n">>,
  <<"H","T","T","P",":","/","/","a",".","e","x","a","m","p","l","e","/","b","e","e","f","\n">>,
  <<"f","t","p",":","/","/","a",".","e","x","a","m","p","l","e","/","f","i","s","h","\n">>,
  <<" ","#"," ","h","t","t","p",":","/","/","c",".","e","x","a","m","p","l","e","/","s","o","u","p","\n">>,
  <<" ","\n">> }

LoadFiles == {NoFile} \cup
  {[exists |-> TRUE, lines |-> ls] : ls \in SeqsUpTo(LoadLines, MaxLines)}

SweetsValues == {Unset, <<"1">>, <<" ","1"," ">>, <<"0">>, <<"t","r","u","e">>}

LoadEnvs == {[NoEnv EXCEPT !.INCLUDE_SWEETS = v] : v \in SweetsValues}

RunLines == {
  <<"h","t","t","p",":","/","/","a",".","e","x","a","m","p","l","e","/","c","h","i","c","k","e","n","\n">>,
  <<"h","t","t","p",":","/","/","b",".","e","x","a","m","p","l","e","/","c","a","k","e","\n">>,
  <<"#"," ","d","i","n","n","e","r","s","\n">> }

RunFiles == {NoFile} \cup
  {[exists |-> TRUE, lines |-> ls] : ls \in SeqsUpTo(RunLines, MaxRunLines)}

RunEnvs ==
  [INCLUDE_SWEETS : {Unset, <<"1">>},
   OPENAI_API_KEY : {Unset, <<" ">>, <<"s","k","-","1">>},
   EMAIL_USER : {Unset, <<"m","e","@","x">>},
   EMAIL_PASS : {Unset, <<"p","w">>},
   EMAIL_TO : {Unset, <<"y","o","u","@","x">>},
   MEALS_PER_WEEK : {Unset, <<"x">>},
   SMTP_HOST : {Unset},
   SMTP_PORT : {Unset, <<"2","5","a">>}]

Probes ==
  [scheme : {<<"h","t","t","p">>, <<"H","T","T","P","S">>},
   host : {<<"a",".","e","x","a","m","p","l","e">>, <<"c","a","k","e",".","e","x","a","m","p","l","e">>},
   path : {<< >>, <<"/","g","r","i","l","l","e","d","-","c","h","i","c","k","e","n">>, <<"/","c","h","o","c","o","l","a","t","e","-","b","r","o","w","n","i","e">>, <<"/","C","A","K","E">>,
           <<"/","i","c","e">>, <<"/","p","i","e","/","x">>, <<"/","b","a","n">>, <<"/","a",";","t","a","r","t","/","b">>},
   params : {None, <<"f","u","d","g","e">>},
   query : {None, <<"i","d","=","7">>, <<"q","=","T","a","r","t">>, <<"c","r","e","a","m">>, <<"a","n","a","-","b","r","e","a","d">>},
   fragment : {None, <<"d","e","s","s","e","r","t">>, <<"x","?","q","=","d","o","n","u","t">>}]

MetaUrls == {<<"h","t","t","p",":","/","/","a",".","e","x","a","m","p","l","e","/","c","h","i","c","k","e","n">>, <<"h","t","t","p",":","/","/","b",".","e","x","a","m","p","l","e","/","s","t","e","w">>}

Parts == {
  [type |-> "output_text", text |-> <<"H","i">>],
  [type |-> "text", text |-> <<" ","1","."," ","A"," ">>],
  [type |-> "refusal", text |-> <<"n","o">>],
  [type |-> "output_text", text |-> None] }

Items == {[content |-> ps] : ps \in SeqsUpTo(Parts, MaxParts)}

Payloads == [output : SeqsUpTo(Items, MaxItems),
             output_text : {None, <<" ">>, <<" ","F","l","a","t"," ">>}]

----------------------------------------------------------------------------
(* Specifications *)

Idle ==
  /\ urls_filtered = << >> /\ meals_per_week = 0 /\ metas = << >>
  /\ net = << >> /\ body = << >> /\ mail = << >> /\ exit_status = -1
  /\ error = ""

\* a run of main()
Init ==
  /\ pc = "main"
  /\ env \in RunEnvs
  /\ recipes_file \in RunFiles
  /\ urls = << >> /\ max_to_fetch = 0 /\ resp = NoResp /\ calls = << >>
  /\ probe = NoProbe /\ probe_ret = FALSE
  /\ Idle

Next ==
  \/ LoadRecipeUrls
  \/ MainNoUrls
  \/ MainBuildLinkMetas
  \/ FetchTitleStep
  \/ BuildLinkMetasRest
  \/ CallOpenAI
  \/ LLMResponse
  \/ SendEmail

Spec == Init /\ [][Next]_vars

\* load_recipe_urls() over recipes files and INCLUDE_SWEETS settings
InitLoad ==
  /\ pc = "main"
  /\ env \in LoadEnvs
  /\ recipes_file \in LoadFiles
  /\ urls = << >> /\ max_to_fetch = 0 /\ resp = NoResp /\ calls = << >>
  /\ probe = NoProbe /\ probe_ret = FALSE
  /\ Idle

NextLoad == LoadRecipeUrls

SpecLoad == InitLoad /\ [][NextLoad]_vars

\* is_probably_sweet_url(url) over URLs written from their components
InitSweet ==
  /\ pc = "is_probably_sweet_url"
  /\ probe \in Probes
  /\ probe_ret = FALSE
  /\ env = NoEnv /\ recipes_file = NoFile
  /\ urls = << >> /\ max_to_fetch = 0 /\ resp = NoResp /\ calls = << >>
  /\ Idle

NextSweet == SweetProbe

SpecSweet == InitSweet /\ [][NextSweet]_vars

\* build_link_metas(urls, max_to_fetch) over URL lists and caps
InitMetas ==
  /\ pc = "build_link_metas"
  /\ urls \in SeqsUpTo(MetaUrls, MaxUrls)
  /\ max_to_fetch \in 0..MaxCap
  /\ calls = <<"build_link_metas">>
  /\ env = NoEnv /\ recipes_file = NoFile /\ resp = NoResp
  /\ probe = NoProbe /\ probe_ret = FALSE
  /\ Idle

NextMetas == FetchTitleStep \/ BuildLinkMetasRest

SpecMetas == InitMetas /\ [][NextMetas]_vars

\* the response handling of call_openai_suggestions over payloads
InitExtract ==
  /\ pc = "llm_response"
  /\ resp \in [kind : {"http"}, status : {200}, json_ok : {TRUE},
               data : Payloads]
  /\ calls = <<"call_openai_suggestions">>
  /\ env = NoEnv /\ recipes_file = NoFile
  /\ urls = << >> /\ max_to_fetch = 0
  /\ probe = NoProbe /\ probe_ret = FALSE
  /\ Idle

NextExtract == LLMResponse

SpecExtract == InitExtract /\ [][NextExtract]_vars

----------------------------------------------------------------------------
(* Properties *)

elems(s) == {s[i] : i \in 1..Len(s)}

first_index(s, x) == Min({i \in 1..Len(s) : s[i] = x})

\* the subsequence of s made of the first occurrence of each value
first_occurrences(s) ==
  LET F[i \in 0..Len(s)] ==
        IF i = 0 THEN << >>
        ELSE IF \E j \in 1..(i - 1) : s[j] = s[i] THEN F[i - 1]
        ELSE Append(F[i - 1], s[i])
  IN  F[Len(s)]

\* C1: the de-duplication step of load_recipe_urls returns each distinct URL
\* of its input exactly once, in the order of first occurrence in the input,
\* two URLs being the same only when they are the same string (case matters)
C1_DedupeFirstOccurrences ==
  pc = "urls_loaded" =>
    /\ \A i, j \in 1..Len(urls) : i # j => urls[i] # urls[j]
    /\ elems(urls) = elems(urls_filtered)
    /\ \A i, j \in 1..Len(urls) :
         i < j => first_index(urls_filtered, urls[i])
                    < first_index(urls_filtered, urls[j])

\* C1 witness: the input holds a URL, another URL that differs from it only
\* in case, and the first URL again; two URLs are returned
C1_Witness ==
  /\ pc = "urls_loaded"
  /\ Len(urls_filtered) = 3
  /\ urls_filtered[1] = urls_filtered[3]
  /\ urls_filtered[1] # urls_filtered[2]
  /\ lower(urls_filtered[1]) = lower(urls_filtered[2])
  /\ Len(urls) = 2

trimmed_lines(file) == [i \in 1..Len(file.lines) |-> strip(file.lines[i])]

ref_is_url(l) == l # << >> /\ l[1] # "#" /\ startswith(l, <<"h","t","t","p">>)

ref_not_sweet(l) == ~is_probably_sweet_url(l)

\* the reference pipeline of the loader with sweets excluded
ref_pipeline(file) ==
  first_occurrences(
    SelectSeq(SelectSeq(trimmed_lines(file), ref_is_url), ref_not_sweet))

sweets_excluded == env.INCLUDE_SWEETS \in {Unset, <<"0">>}

ExampleFile == <<<<"h","t","t","p",":","/","/","a",".","e","x","a","m","p","l","e","/","c","h","i","c","k","e","n","\n">>, <<"h","t","t","p",":","/","/","a",".","e","x","a","m","p","l","e","/","c","h","i","c","k","e","n","\n">>,
                 <<"h","t","t","p",":","/","/","b",".","e","x","a","m","p","l","e","/","c","a","k","e","\n">>>>

\* C2: with sweets excluded, load_recipe_urls returns the trimmed lines of
\* the file, in file order, without the empty ones, the comments, those not
\* starting with "http" and the sweet ones, first occurrences only; the file
\* [chicken, chicken, cake] yields [chicken]
C2_LoaderEqualsReference ==
  (pc = "urls_loaded" /\ recipes_file.exists /\ sweets_excluded) =>
    /\ urls = ref_pipeline(recipes_file)
    /\ \A i \in 1..Len(urls) :
         urls[i] # << >> /\ urls[i][1] # "#" /\ startswith(urls[i], <<"h","t","t","p">>)
    /\ recipes_file.lines = ExampleFile => urls = <<<<"h","t","t","p",":","/","/","a",".","e","x","a","m","p","l","e","/","c","h","i","c","k","e","n">>>>

\* C2 witness: the example file has been loaded
C2_Witness ==
  /\ pc = "urls_loaded"
  /\ sweets_excluded
  /\ recipes_file.exists
  /\ recipes_file.lines = ExampleFile
  /\ Len(urls) = 1

keyword_in(s) == \E k \in DESSERT_KEYWORDS : contains(lower(s), k)

\* C3: is_probably_sweet_url is true exactly when a dessert keyword occurs
\* in the lower-cased path or in the lower-cased query of the URL; scheme,
\* host and fragment do not count (nor do the ;params of the last path
\* segment, which urlparse takes out of the path)
C3_SweetIffKeywordInPathOrQuery ==
  pc = "returned" =>
    (probe_ret <=> \/ keyword_in(probe.path)
                   \/ (probe.query # None /\ keyword_in(probe.query)))

\* C3 witness: a URL with a keyword in its host and in its fragment only has
\* been judged not sweet
C3_Witness ==
  /\ pc = "returned"
  /\ keyword_in(probe.host)
  /\ probe.fragment # None /\ keyword_in(probe.fragment)
  /\ ~probe_ret

\* the trimmed lines that pass the line filter
candidates(file) ==
  {l \in elems(trimmed_lines(file)) : ref_is_url(l)}

\* what the loader returns with and without the dessert filter
sweets_kept == elems(urls) = candidates(recipes_file)
sweets_dropped ==
  elems(urls) = {l \in candidates(recipes_file) : ~is_probably_sweet_url(l)}

\* the flag is given a value other than the empty one and "0"
flag_set == /\ env.INCLUDE_SWEETS # Unset
            /\ strip(env.INCLUDE_SWEETS) \notin {<< >>, <<"0">>}

\* the flag is given the value "1" (surrounding whitespace aside)
flag_is_1 == /\ env.INCLUDE_SWEETS # Unset
             /\ strip(env.INCLUDE_SWEETS) = <<"1">>

\* C4 as stated: the dessert filter is applied exactly when the include-
\* sweets flag is absent or false; once the flag is set no URL is dropped
\* for a dessert keyword
C4_FilterIffFlagNotSet ==
  (pc = "urls_loaded" /\ recipes_file.exists) =>
    IF flag_set THEN sweets_kept ELSE sweets_dropped

\* C4 amended: the dessert filter is switched off exactly when
\* INCLUDE_SWEETS, trimmed, is "1"; any other value leaves it on
C4_FilterIffFlagNot1 ==
  (pc = "urls_loaded" /\ recipes_file.exists) =>
    IF flag_is_1 THEN sweets_kept ELSE sweets_dropped

\* C4 witness: INCLUDE_SWEETS is " 1 " and a sweet URL of the file has been
\* returned
C4_Witness ==
  /\ pc = "urls_loaded"
  /\ env.INCLUDE_SWEETS = <<" ","1"," ">>
  /\ \E u \in elems(urls) : is_probably_sweet_url(u)

\* C5: a run whose URL list is empty ends with status 2 and makes no title
\* GET, no LLM request and no SMTP connection
C5_EmptyListExits2 ==
  (pc # "main" /\ urls = << >>) =>
    /\ net = << >>
    /\ mail = << >>
    /\ calls = <<"load_recipe_urls">>
    /\ pc \in {"urls_loaded", "done"}
    /\ pc = "done" => exit_status = 2 /\ error = ""

\* C5 witness: a file with lines, none of them usable, ended the run
C5_Witness ==
  /\ pc = "done"
  /\ recipes_file.exists /\ recipes_file.lines # << >>
  /\ urls = << >>
  /\ exit_status = 2

in_calls(f) == \E i \in 1..Len(calls) : calls[i] = f

net_kinds == {net[i].kind : i \in 1..Len(net)}

blank(s) == \A i \in 1..Len(s) : s[i] \in Whitespace

\* no text under any recognized field of the payload
no_text(data) ==
  /\ \A i \in 1..Len(data.output) :
       \A j \in 1..Len(data.output[i].content) :
         LET c == data.output[i].content[j]
         IN  c.type \in {"output_text", "text"} =>
               (c.text = None \/ blank(c.text))
  /\ data.output_text = None \/ blank(data.output_text)

llm_failed ==
  /\ pc \in {"send_email", "done"}
  /\ in_calls("call_openai_suggestions")
  /\ \/ resp.kind # "http"
     \/ resp.status >= 400
     \/ ~resp.json_ok
     \/ no_text(resp.data)

\* C6: the mailer is invoked, and SMTP used, only after the generator
\* returned a non-empty trimmed text; after an HTTP error status or a
\* response without text the run has failed and the mailer is never
\* invoked; the body of the message is the text the generator returned
C6_MailOnlyAfterText ==
  /\ (pc = "send_email" \/ in_calls("send_email") \/ "SMTP" \in net_kinds
        \/ mail # << >>) =>
       /\ body # << >> /\ strip(body) = body
       /\ resp.kind = "http" /\ resp.status < 400 /\ ~no_text(resp.data)
  /\ llm_failed =>
       /\ pc = "done" /\ error # "" /\ exit_status = 1
       /\ ~in_calls("send_email") /\ "SMTP" \notin net_kinds /\ mail = << >>
  /\ \A i \in 1..Len(mail) : mail[i].content = body

\* C6 witness: a message has been submitted
C6_Witness ==
  /\ pc = "done"
  /\ Len(mail) = 1
  /\ mail[1].content = body

missing(name) == env[name] = Unset \/ blank(env[name])

required_missing ==
  \/ missing("OPENAI_API_KEY") \/ missing("EMAIL_USER")
  \/ missing("EMAIL_PASS") \/ missing("EMAIL_TO")

\* the errors raised for a setting that is missing or, for a number, does
\* not parse
config_errors == {"RuntimeError: OPENAI_API_KEY must be set",
                  "RuntimeError: EMAIL_USER, EMAIL_PASS and EMAIL_TO must be set",
                  "ValueError"}

\* C7: a run in which a required setting (API key, mail user, mail password,
\* recipient) is missing makes no network call of any kind, and with URLs to
\* work on it ends in the configuration error
C7_ConfigErrorBeforeNetwork ==
  required_missing =>
    /\ net = << >>
    /\ (pc = "done" /\ urls # << >>) => error \in config_errors

fetch_failed(r) ==
  \/ r.kind = "exc"
  \/ r.status \notin 200..299
  \/ ~r.parses
  \/ (r.og = None \/ r.og = << >>) /\ (r.title = None \/ r.title = << >>)

min(a, b) == IF a < b THEN a ELSE b

stages == <<"load_recipe_urls", "build_link_metas",
            "call_openai_suggestions", "send_email">>

llm_returned_text ==
  in_calls("call_openai_suggestions") /\ body # << >> /\ ~llm_failed

email_submitted ==
  Len(mail) = 1 /\ net[Len(net)].kind = "SMTP" /\ net[Len(net)].reply = "sent"

\* C9: the exit status is 0 exactly when the URL list was non-empty, the
\* LLM call returned a text and the email was submitted; it is 2 exactly
\* when the URL list was empty; every error ends the run at once with a
\* non-zero status; no stage runs after a failure and none runs twice
C9_ExitStatus ==
  /\ pc = "done" =>
       /\ exit_status \in {0, 1, 2}
       /\ exit_status = 0 <=>
            (urls # << >> /\ llm_returned_text /\ net # << >> /\ email_submitted)
       /\ exit_status = 2 <=> urls = << >>
       /\ exit_status = 1 <=> error # ""
  /\ pc # "done" => exit_status = -1 /\ error = ""
  /\ Len(calls) <= 4 /\ calls = SubSeq(stages, 1, Len(calls))
  /\ Cardinality({i \in 1..Len(net) : net[i].kind = "POST"}) <= 1
  /\ Cardinality({i \in 1..Len(net) : net[i].kind = "SMTP"}) <= 1
  /\ Cardinality({i \in 1..Len(net) : net[i].kind = "GET"}) <= Len(urls)

\* C9 witness: the SMTP session failed after the LLM had answered
C9_Witness ==
  /\ pc = "done"
  /\ error = "SMTPException"
  /\ exit_status = 1
  /\ body # << >>
  /\ mail = << >>

RECURSIVE concat(_)
\* the strings of a sequence put end to end
concat(ss) == IF ss = << >> THEN << >> ELSE Head(ss) \o concat(Tail(ss))

text_of(c) == IF c.text = None THEN << >> ELSE c.text

is_text_part(c) == c.type \in {"output_text", "text"}

\* the texts of the text parts of one item, in order
item_texts(item) ==
  LET ps == SelectSeq(item.content, is_text_part)
  IN  [j \in 1..Len(ps) |-> text_of(ps[j])]

\* the texts of the text parts of all items, in payload order
payload_texts(data) ==
  LET T[i \in 0..Len(data.output)] ==
        IF i = 0 THEN << >> ELSE T[i - 1] \o item_texts(data.output[i])
  IN  T[Len(data.output)]

flat_text(data) ==
  IF data.output_text = None THEN << >> ELSE strip(data.output_text)

handled_ok == pc # "llm_response" /\ resp.kind = "http" /\ resp.status < 400

no_text_error == error = "RuntimeError: OpenAI API returned no text output"

\* what the response handling has done, given the nested text `nested`
returns_per(nested, flat) ==
  /\ nested # << >> => pc = "send_email" /\ body = nested
  /\ (nested = << >> /\ flat # << >>) => pc = "send_email" /\ body = flat
  /\ no_text_error <=> (nested = << >> /\ flat = << >>)

\* C10 as stated: the returned text is the texts of the text parts of all
\* items, concatenated in payload order and trimmed; the top-level text
\* field, trimmed, is used only when that is empty; the empty-output error
\* is raised exactly when both are empty
C10_ConcatenatedText ==
  handled_ok =>
    returns_per(strip(concat(payload_texts(resp.data))), flat_text(resp.data))

\* C10 amended: the returned text is the texts of the text parts of all
\* items, in payload order, joined with one newline between consecutive
\* texts, and trimmed; the rest as stated
C10_NewlineJoinedText ==
  handled_ok =>
    returns_per(strip(join(<<"\n">>, payload_texts(resp.data))),
                flat_text(resp.data))

\* C10 witness: a payload of two items with one non-empty text part each and
\* a top-level text has been handled; the nested texts made the result
C10_Witness ==
  /\ pc = "send_email"
  /\ Len(resp.data.output) = 2
  /\ Len(payload_texts(resp.data)) = 2
  /\ \A i \in 1..2 : ~blank(payload_texts(resp.data)[i])
  /\ resp.data.output_text # None /\ ~blank(resp.data.output_text)
  /\ contains(body, <<"\n">>)

====
